---- MODULE Spec2Model ----
(***************************************************************************)
(* Deep Mine Empire: the economy engine of App (gameState and its          *)
(* handlers), the minigame trigger, and the Minigame component (countdown, *)
(* obstacle spawner, frame loop, result effect).                           *)
(*                                                                         *)
(* Numbers of the program are JavaScript numbers; they are modelled as     *)
(* exact rationals [n, d] in lowest terms.                                 *)
(*                                                                         *)
(* React is modelled as follows.  State setters take effect on the state   *)
(* variables at once (updaters are applied in the order they are queued).  *)
(* `rendered` is the snapshot of the last render: it is what the closures  *)
(* of handlers, timers and effects read.  A click, key or dialog event     *)
(* runs its handler and one commit (render, then the passive effects whose *)
(* dependencies changed) in one step; a timer or animation-frame callback  *)
(* only runs the callback, and the commit it asks for is the step Render.  *)
(* State set inside an effect is committed by a later Render.              *)
(***************************************************************************)
EXTENDS Integers, Sequences, FiniteSets, TLC

VARIABLES
    gameState,             \* App: useState<GameState>
    minigameOpen,          \* App: useState(false)
    lastDepthForMinigame,  \* App: useState(0)
    interval,              \* App: the auto mining setInterval
    timeLeft,              \* Minigame: useState(10)
    result,                \* Minigame: useState(null)
    player,                \* Minigame effect closure: player.x
    gasLines,              \* Minigame effect closure: falling obstacles
    gameSpeed,             \* Minigame effect closure: 1 + depth / 50
    gameLoop,              \* Minigame: an animation frame is requested
    spawnInterval,         \* Minigame: the spawn interval is armed
    timerInterval,         \* Minigame: the countdown interval is armed
    keydown,               \* Minigame: the keydown listener is registered
    rendered,              \* React: state as of the last render
    appDirty,              \* React: App state was set since the last render
    closed,                \* observer: results passed to onClose since activation
    ticks                  \* observer: countdown callbacks since activation

vars == <<gameState, minigameOpen, lastDepthForMinigame, interval, timeLeft,
          result, player, gasLines, gameSpeed, gameLoop, spawnInterval,
          timerInterval, keydown, rendered, appDirty, closed, ticks>>

(***************************************************************************)
(* Bounds of the model.                                                    *)
(***************************************************************************)
MaxMined == 100         \* Spec: no mining once totalMined reached it
MaxDeepMined == 305     \* SpecDeep: no mining once totalMined reached it
MaxHostMined == 5002    \* SpecMinigame: no mining once totalMined reached it
MaxSkillMined == 691800 \* SpecSkills: no mining once totalMined reached it
MaxSeamMined == 503     \* SpecSeam: no mining once totalMined reached it
MaxTimerMined == 406    \* SpecTimer: no mining once totalMined reached it
MaxWaited == 2500       \* SpecTimer: no time passes once waited reached it
MaxSellMined == 505     \* SpecSell: no mining once totalMined reached it
MaxReentryMined == 691901 \* SpecReentry: no mining once totalMined reached it
MaxPointsMined == 351   \* SpecPoints: no mining once totalMined reached it
MaxXpLevel == 8         \* SpecXp: no grant once level reached it
MaxOwned == 2           \* units of one equipment kind bought
MaxUpgradeLevel == 2    \* purchases of one money upgrade
MaxGasLines == 1        \* obstacles on the canvas at once
MaxKeySteps == 3        \* key steps the player moves away from the centre
SellLot == 50           \* the player sells a resource in multiples of it

(***************************************************************************)
(* Exact rational arithmetic for JavaScript numbers.                       *)
(***************************************************************************)
RECURSIVE GCD(_, _)
GCD(a, b) ==
    IF b = 0 THEN a ELSE GCD(b, a % b)

Abs(a) ==
    IF a < 0 THEN -a ELSE a

Norm(n, d) ==
    LET g == GCD(Abs(n), d)
    IN  [n |-> n \div g, d |-> d \div g]

Num(k) ==
    [n |-> k, d |-> 1]

Frac(n, d) ==
    Norm(n, d)

Add(a, b) ==
    Norm(a.n * b.d + b.n * a.d, a.d * b.d)

Sub(a, b) ==
    Norm(a.n * b.d - b.n * a.d, a.d * b.d)

Mul(a, b) ==
    Norm(a.n * b.n, a.d * b.d)

Lt(a, b) ==
    a.n * b.d < b.n * a.d

Le(a, b) ==
    a.n * b.d <= b.n * a.d

Floor(a) ==
    a.n \div a.d

RECURSIVE Pow(_, _)
Pow(a, k) ==
    IF k = 0 THEN Num(1) ELSE Mul(a, Pow(a, k - 1))

(***************************************************************************)
(* Catalogs.                                                               *)
(***************************************************************************)
RESOURCES ==
    << [id |-> "coal",    value |-> 1,   unlockDepth |-> 0],
       [id |-> "iron",    value |-> 5,   unlockDepth |-> 10],
       [id |-> "gold",    value |-> 25,  unlockDepth |-> 25],
       [id |-> "diamond", value |-> 100, unlockDepth |-> 50] >>

ResourceIds == {RESOURCES[i].id : i \in 1..Len(RESOURCES)}

INITIAL_EQUIPMENT ==
    << [id |-> "basic_pickaxe", type |-> "pickaxe",    power |-> 1,  cost |-> 50],
       [id |-> "steel_pickaxe", type |-> "pickaxe",    power |-> 5,  cost |-> 200],
       [id |-> "auto_miner",    type |-> "automation", power |-> 1,  cost |-> 300],
       [id |-> "auto_drill",    type |-> "automation", power |-> 5,  cost |-> 1500],
       [id |-> "mega_miner",    type |-> "automation", power |-> 25, cost |-> 7500],
       [id |-> "drill",         type |-> "drill",      power |-> 10, cost |-> 1000],
       [id |-> "mega_drill",    type |-> "drill",      power |-> 50, cost |-> 5000] >>

EquipmentIds == {INITIAL_EQUIPMENT[i].id : i \in 1..Len(INITIAL_EQUIPMENT)}

INITIAL_MONEY_UPGRADES ==
    << [id |-> "click_power_1", cost |-> 100, field |-> "clickMultiplier",     factor |-> Frac(11, 10)],
       [id |-> "auto_speed_1",  cost |-> 250, field |-> "autoMultiplier",      factor |-> Frac(11, 10)],
       [id |-> "sell_bonus_1",  cost |-> 500, field |-> "sellPriceMultiplier", factor |-> Frac(21, 20)] >>

UpgradeIds == {INITIAL_MONEY_UPGRADES[i].id : i \in 1..Len(INITIAL_MONEY_UPGRADES)}

\* getCost(level) = level * a + b
SKILL_TREE ==
    << [id |-> "click_power_boost",    maxLevel |-> 10, a |-> 1, b |-> 1, dependencies |-> {}],
       [id |-> "auto_mine_speed",      maxLevel |-> 10, a |-> 1, b |-> 1, dependencies |-> {}],
       [id |-> "xp_gain",              maxLevel |-> 5,  a |-> 2, b |-> 1,
        dependencies |-> {"click_power_boost", "auto_mine_speed"}],
       [id |-> "rare_resource_chance", maxLevel |-> 5,  a |-> 2, b |-> 2,
        dependencies |-> {"auto_mine_speed"}],
       [id |-> "minigame_bonus",       maxLevel |-> 3,  a |-> 3, b |-> 2,
        dependencies |-> {"xp_gain"}] >>

SkillIds == {SKILL_TREE[i].id : i \in 1..Len(SKILL_TREE)}

Find(catalog, id) ==
    catalog[CHOOSE i \in 1..Len(catalog) : catalog[i].id = id]

getCost(skill, level) ==
    level * skill.a + skill.b

(***************************************************************************)
(* App: the initial state.                                                 *)
(***************************************************************************)
InitialGameState ==
    [ level |-> 1, xp |-> Num(0), xpToNextLevel |-> 100, skillPoints |-> 0,
      money |-> Num(0),
      coal |-> Num(0), iron |-> Num(0), gold |-> Num(0), diamond |-> Num(0),
      depth |-> Num(0), totalMined |-> Num(0),
      clickPower |-> 1, autoMineRate |-> 0,
      equipment |-> [e \in EquipmentIds |-> 0],
      upgrades |-> [ clickMultiplier |-> Num(1), autoMultiplier |-> Num(1),
                     efficiencyBonus |-> Num(1), sellPriceMultiplier |-> Num(1),
                     xpGainMultiplier |-> Num(1), rareResourceChance |-> 0 ],
      moneyUpgrades |-> [u \in UpgradeIds |-> 0],
      skills |-> [s \in SkillIds |-> 0] ]

(***************************************************************************)
(* App: the handlers, as functions of the state `seen` their closure was   *)
(* rendered with and of the state `prev` their updater is applied to.      *)
(***************************************************************************)
\* the level-up loop with the threshold doubled at each level
RECURSIVE LevelUp_Doubling(_, _, _, _)
LevelUp_Doubling(newXp, newLevel, newXpToNextLevel, newSkillPoints) ==
    IF Le(Num(newXpToNextLevel), newXp)
    THEN LevelUp_Doubling(Sub(newXp, Num(newXpToNextLevel)), newLevel + 1,
                          newXpToNextLevel * 2, newSkillPoints + 1)
    ELSE [xp |-> newXp, level |-> newLevel,
          xpToNextLevel |-> newXpToNextLevel, skillPoints |-> newSkillPoints]

\* the level-up loop as an if: one level-up at most
LevelUp_Once(newXp, newLevel, newXpToNextLevel, newSkillPoints) ==
    IF Le(Num(newXpToNextLevel), newXp)
    THEN [xp |-> Sub(newXp, Num(newXpToNextLevel)), level |-> newLevel + 1,
          xpToNextLevel |-> (newXpToNextLevel * 3) \div 2,
          skillPoints |-> newSkillPoints + 1]
    ELSE [xp |-> newXp, level |-> newLevel,
          xpToNextLevel |-> newXpToNextLevel, skillPoints |-> newSkillPoints]

\* the level-up loop without the subtraction of the threshold
RECURSIVE LevelUp_NoSubtract(_, _, _, _)
LevelUp_NoSubtract(newXp, newLevel, newXpToNextLevel, newSkillPoints) ==
    IF Le(Num(newXpToNextLevel), newXp)
    THEN LevelUp_NoSubtract(newXp, newLevel + 1,
                            (newXpToNextLevel * 3) \div 2, newSkillPoints + 1)
    ELSE [xp |-> newXp, level |-> newLevel,
          xpToNextLevel |-> newXpToNextLevel, skillPoints |-> newSkillPoints]

RECURSIVE LevelUp(_, _, _, _)
LevelUp(newXp, newLevel, newXpToNextLevel, newSkillPoints) ==
    IF Le(Num(newXpToNextLevel), newXp)
    THEN LevelUp(Sub(newXp, Num(newXpToNextLevel)), newLevel + 1,
                 (newXpToNextLevel * 3) \div 2, newSkillPoints + 1)
    ELSE [xp |-> newXp, level |-> newLevel,
          xpToNextLevel |-> newXpToNextLevel, skillPoints |-> newSkillPoints]

\* gainXp of a render whose xpGainMultiplier was xpGainMultiplier
gainXp(xpGainMultiplier, prev, amount) ==
    LET xpGained == Mul(amount, xpGainMultiplier)
        l == LevelUp(Add(prev.xp, xpGained), prev.level, prev.xpToNextLevel,
                     prev.skillPoints)
    IN  [prev EXCEPT !.xp = l.xp, !.level = l.level,
                     !.xpToNextLevel = l.xpToNextLevel,
                     !.skillPoints = l.skillPoints]

getCurrentResource(depth) ==
    LET availableResources ==
            SelectSeq(RESOURCES, LAMBDA r : Le(Num(r.unlockDepth), depth))
    IN  IF Len(availableResources) > 0
        THEN availableResources[Len(availableResources)]
        ELSE RESOURCES[1]

\* mineResource; rare is the outcome of the Math.random() draw
mineResource(seen, xpGainMultiplier, prev, rare) ==
    LET resource == getCurrentResource(seen.depth)
        base == Mul(Num(seen.clickPower), seen.upgrades.clickMultiplier)
        power == IF rare THEN Mul(base, Num(2)) ELSE base
        s == gainXp(xpGainMultiplier, prev, power)
    IN  [s EXCEPT ![resource.id] = Add(@, power),
                  !.totalMined = Add(@, power),
                  !.depth = Add(@, Mul(power, Frac(1, 10)))]

\* the outcomes Math.random() < rareResourceChance / 100 can have
RareDraws(seen) ==
    IF seen.upgrades.rareResourceChance <= 0 THEN {FALSE}
    ELSE IF seen.upgrades.rareResourceChance >= 100 THEN {TRUE}
    ELSE BOOLEAN

\* the callback of the auto mining interval
autoMine(seen, xpGainMultiplier, prev) ==
    LET resource == getCurrentResource(seen.depth)
        power == Mul(Num(seen.autoMineRate), seen.upgrades.autoMultiplier)
        s == gainXp(xpGainMultiplier, prev, Mul(power, Frac(1, 2)))
    IN  [s EXCEPT ![resource.id] = Add(@, power),
                  !.totalMined = Add(@, power),
                  !.depth = Add(@, Mul(power, Frac(1, 20)))]

\* the guard of sellResource without the comparison to the amount held
sellAccepted_Any(seen, resourceId, amount) ==
    resourceId \in ResourceIds

sellAccepted(seen, resourceId, amount) ==
    /\ resourceId \in ResourceIds
    /\ ~Lt(seen[resourceId], amount)

\* sellResource granting the whole of moneyGained as xp
sellResource_FullXp(seen, prev, resourceId, amount) ==
    LET resource == Find(RESOURCES, resourceId)
        moneyGained == Mul(Mul(amount, Num(resource.value)),
                           seen.upgrades.sellPriceMultiplier)
        s == gainXp(seen.upgrades.xpGainMultiplier, prev, moneyGained)
    IN  [s EXCEPT ![resourceId] = Sub(@, amount),
                  !.money = Add(@, moneyGained)]

sellResource(seen, prev, resourceId, amount) ==
    LET resource == Find(RESOURCES, resourceId)
        moneyGained == Mul(Mul(amount, Num(resource.value)),
                           seen.upgrades.sellPriceMultiplier)
        s == gainXp(seen.upgrades.xpGainMultiplier, prev,
                    Mul(moneyGained, Frac(1, 10)))
    IN  [s EXCEPT ![resourceId] = Sub(@, amount),
                  !.money = Add(@, moneyGained)]

\* the cost of equipment without the growth per unit owned
equipmentCost_Flat(seen, equipmentId) ==
    Num(Find(INITIAL_EQUIPMENT, equipmentId).cost)

equipmentCost(seen, equipmentId) ==
    Mul(Num(Find(INITIAL_EQUIPMENT, equipmentId).cost),
        Pow(Frac(3, 2), seen.equipment[equipmentId]))

buyEquipmentAccepted(seen, equipmentId) ==
    /\ equipmentId \in EquipmentIds
    /\ ~Lt(seen.money, equipmentCost(seen, equipmentId))

RECURSIVE SumPower(_, _, _)
SumPower(owned, types, i) ==
    IF i = 0 THEN 0
    ELSE SumPower(owned, types, i - 1)
         + (IF INITIAL_EQUIPMENT[i].type \in types
            THEN INITIAL_EQUIPMENT[i].power * owned[INITIAL_EQUIPMENT[i].id]
            ELSE 0)

\* buyEquipment adding the power of the unit bought to clickPower, whatever
\* its type
buyEquipment_Incremental(seen, equipmentId) ==
    LET cost == equipmentCost(seen, equipmentId)
    IN  [seen EXCEPT !.money = Sub(@, cost),
                     !.equipment[equipmentId] = @ + 1,
                     !.clickPower = @ + Find(INITIAL_EQUIPMENT, equipmentId).power]

\* buyEquipment sets the whole state from the state it was rendered with
buyEquipment(seen, equipmentId) ==
    LET cost == equipmentCost(seen, equipmentId)
        updatedEquipment == [seen.equipment EXCEPT ![equipmentId] = @ + 1]
        newClickPower ==
            1 + SumPower(updatedEquipment, {"pickaxe", "drill"},
                         Len(INITIAL_EQUIPMENT))
        newAutoMineRate ==
            SumPower(updatedEquipment, {"automation"}, Len(INITIAL_EQUIPMENT))
    IN  [seen EXCEPT !.money = Sub(@, cost),
                     !.equipment = updatedEquipment,
                     !.clickPower = newClickPower,
                     !.autoMineRate = newAutoMineRate]

\* the cost of a money upgrade without the doubling per level
upgradeCost_Flat(seen, upgradeId) ==
    Num(Find(INITIAL_MONEY_UPGRADES, upgradeId).cost)

upgradeCost(seen, upgradeId) ==
    Mul(Num(Find(INITIAL_MONEY_UPGRADES, upgradeId).cost),
        Pow(Num(2), seen.moneyUpgrades[upgradeId]))

buyMoneyUpgradeAccepted(seen, upgradeId) ==
    /\ upgradeId \in UpgradeIds
    /\ ~Lt(seen.money, upgradeCost(seen, upgradeId))

buyMoneyUpgrade(seen, prev, upgradeId) ==
    LET upgrade == Find(INITIAL_MONEY_UPGRADES, upgradeId)
        cost == upgradeCost(seen, upgradeId)
    IN  [prev EXCEPT !.money = Sub(@, cost),
                     !.upgrades[upgrade.field] = Mul(@, upgrade.factor),
                     !.moneyUpgrades[upgradeId] = @ + 1]

\* the guard of spendSkillPoint without the test of maxLevel
spendSkillPointAccepted_NoMax(seen, skillId) ==
    /\ skillId \in SkillIds
    /\ seen.skillPoints > 0
    /\ seen.skillPoints >= getCost(Find(SKILL_TREE, skillId), seen.skills[skillId])

spendSkillPointAccepted(seen, skillId) ==
    /\ skillId \in SkillIds
    /\ seen.skillPoints > 0
    /\ seen.skills[skillId] < Find(SKILL_TREE, skillId).maxLevel
    /\ seen.skillPoints >= getCost(Find(SKILL_TREE, skillId), seen.skills[skillId])

\* spendSkillPoint compounding the multipliers instead of setting them
spendSkillPoint_Cumulative(seen, prev, skillId) ==
    LET skill == Find(SKILL_TREE, skillId)
        currentLevel == seen.skills[skillId]
        cost == getCost(skill, currentLevel)
        newUpgrades ==
            IF skillId = "click_power_boost"
            THEN [prev.upgrades EXCEPT !.clickMultiplier = Mul(@, Frac(21, 20))]
            ELSE IF skillId = "auto_mine_speed"
            THEN [prev.upgrades EXCEPT !.autoMultiplier = Mul(@, Frac(21, 20))]
            ELSE IF skillId = "xp_gain"
            THEN [prev.upgrades EXCEPT !.xpGainMultiplier = Mul(@, Frac(11, 10))]
            ELSE IF skillId = "rare_resource_chance"
            THEN [prev.upgrades EXCEPT !.rareResourceChance = @ + 1]
            ELSE prev.upgrades
    IN  [prev EXCEPT !.skillPoints = @ - cost,
                     !.skills[skillId] = currentLevel + 1,
                     !.upgrades = newUpgrades]

\* spendSkillPoint taking the skill points from the render it was created in
spendSkillPoint_SeenPoints(seen, prev, skillId) ==
    LET skill == Find(SKILL_TREE, skillId)
        currentLevel == seen.skills[skillId]
        cost == getCost(skill, currentLevel)
        newLevel == currentLevel + 1
    IN  [prev EXCEPT !.skillPoints = seen.skillPoints - cost,
                     !.skills[skillId] = newLevel]

spendSkillPoint(seen, prev, skillId) ==
    LET skill == Find(SKILL_TREE, skillId)
        currentLevel == seen.skills[skillId]
        cost == getCost(skill, currentLevel)
        newLevel == currentLevel + 1
        newUpgrades ==
            IF skillId = "click_power_boost"
            THEN [prev.upgrades EXCEPT
                    !.clickMultiplier = Add(Num(1), Mul(Num(newLevel), Frac(1, 20)))]
            ELSE IF skillId = "auto_mine_speed"
            THEN [prev.upgrades EXCEPT
                    !.autoMultiplier = Add(Num(1), Mul(Num(newLevel), Frac(1, 20)))]
            ELSE IF skillId = "xp_gain"
            THEN [prev.upgrades EXCEPT
                    !.xpGainMultiplier = Add(Num(1), Mul(Num(newLevel), Frac(1, 10)))]
            ELSE IF skillId = "rare_resource_chance"
            THEN [prev.upgrades EXCEPT !.rareResourceChance = newLevel]
            ELSE prev.upgrades
    IN  [prev EXCEPT !.skillPoints = @ - cost,
                     !.skills[skillId] = newLevel,
                     !.upgrades = newUpgrades]

\* the gating of the skill button in the skill tree panel
dependenciesMet(seen, skillId) ==
    \A dep \in Find(SKILL_TREE, skillId).dependencies : seen.skills[dep] > 0

(***************************************************************************)
(* React: the commit.  The state is handled as one record so that a        *)
(* handler and the effects that follow it compose.                         *)
(***************************************************************************)
World ==
    [ gameState |-> gameState, minigameOpen |-> minigameOpen,
      lastDepthForMinigame |-> lastDepthForMinigame, interval |-> interval,
      timeLeft |-> timeLeft, result |-> result, player |-> player,
      gasLines |-> gasLines, gameSpeed |-> gameSpeed, gameLoop |-> gameLoop,
      spawnInterval |-> spawnInterval, timerInterval |-> timerInterval,
      keydown |-> keydown, rendered |-> rendered, appDirty |-> appDirty,
      closed |-> closed, ticks |-> ticks ]

Becomes(w) ==
    /\ gameState' = w.gameState
    /\ minigameOpen' = w.minigameOpen
    /\ lastDepthForMinigame' = w.lastDepthForMinigame
    /\ interval' = w.interval
    /\ timeLeft' = w.timeLeft
    /\ result' = w.result
    /\ player' = w.player
    /\ gasLines' = w.gasLines
    /\ gameSpeed' = w.gameSpeed
    /\ gameLoop' = w.gameLoop
    /\ spawnInterval' = w.spawnInterval
    /\ timerInterval' = w.timerInterval
    /\ keydown' = w.keydown
    /\ rendered' = w.rendered
    /\ appDirty' = w.appDirty
    /\ closed' = w.closed
    /\ ticks' = w.ticks

CANVAS_WIDTH == 400
CANVAS_HEIGHT == 500
PLAYER_WIDTH == 20
PLAYER_HEIGHT == 20
PLAYER_Y == CANVAS_HEIGHT - 30
GAS_HEIGHT == 10
GAS_START_Y == -20
KEY_STEP == 10
MINIGAME_TIME == 10
WIN_XP == 50
AUTO_INTERVAL == 1000
TimeStep == AUTO_INTERVAL \div 2

setGameState(w, g) ==
    [w EXCEPT !.gameState = g, !.appDirty = TRUE]

setMinigameOpen(w, open) ==
    [w EXCEPT !.minigameOpen = open,
              !.appDirty = @ \/ (w.minigameOpen # open)]

setLastDepthForMinigame(w, d) ==
    [w EXCEPT !.lastDepthForMinigame = d,
              !.appDirty = @ \/ (w.lastDepthForMinigame # d)]

\* handleMinigameClose without the branch of lose
handleMinigameClose_KeepsMoney(w, r, res) ==
    LET w1 == setMinigameOpen(w, FALSE)
    IN  IF res = "win"
        THEN setGameState(w1, gainXp(r.gameState.upgrades.xpGainMultiplier,
                                     w1.gameState, Num(WIN_XP)))
        ELSE w1

\* handleMinigameClose with a loss that also takes the coal
handleMinigameClose_TakesCoal(w, r, res) ==
    LET w1 == setMinigameOpen(w, FALSE)
    IN  IF res = "lose"
        THEN setGameState(w1, [w1.gameState EXCEPT !.money = Num(0),
                                                   !.coal = Num(0)])
        ELSE IF res = "win"
        THEN setGameState(w1, gainXp(r.gameState.upgrades.xpGainMultiplier,
                                     w1.gameState, Num(WIN_XP)))
        ELSE w1

\* handleMinigameClose with a win that also pays money
handleMinigameClose_WinPays(w, r, res) ==
    LET w1 == setMinigameOpen(w, FALSE)
    IN  IF res = "lose"
        THEN setGameState(w1, [w1.gameState EXCEPT !.money = Num(0)])
        ELSE IF res = "win"
        THEN setGameState(w1, [gainXp(r.gameState.upgrades.xpGainMultiplier,
                                      w1.gameState, Num(WIN_XP))
                                 EXCEPT !.money = Add(@, Num(WIN_XP))])
        ELSE w1

\* handleMinigameClose of the render r
handleMinigameClose(w, r, res) ==
    LET w1 == setMinigameOpen(w, FALSE)
    IN  IF res = "lose"
        THEN setGameState(w1, [w1.gameState EXCEPT !.money = Num(0)])
        ELSE IF res = "win"
        THEN setGameState(w1, gainXp(r.gameState.upgrades.xpGainMultiplier,
                                     w1.gameState, Num(WIN_XP)))
        ELSE w1

\* Minigame: useEffect(..., [result, onClose])
ResultEffect(w, r) ==
    IF r.result # "null"
    THEN [handleMinigameClose(w, r, r.result) EXCEPT
            !.result = "null", !.closed = Append(@, r.result)]
    ELSE w

\* Minigame: the cleanup returned by useEffect(..., [open, onClose, depth])
MinigameCleanup(w) ==
    [w EXCEPT !.gameLoop = FALSE, !.spawnInterval = FALSE,
              !.timerInterval = FALSE, !.keydown = FALSE]

\* the activation effect without setTimeLeft(10) and without a new player
MinigameEffect_Resumes(w, r) ==
    IF ~r.minigameOpen THEN w
    ELSE [w EXCEPT !.result = "null",
                   !.gasLines = << >>,
                   !.gameSpeed = Add(Num(1), Mul(r.gameState.depth, Frac(1, 50))),
                   !.spawnInterval = TRUE,
                   !.timerInterval = TRUE,
                   !.keydown = TRUE,
                   !.gameLoop = TRUE]

\* Minigame: useEffect(..., [open, onClose, depth])
MinigameEffect(w, r) ==
    IF ~r.minigameOpen THEN w
    ELSE [w EXCEPT !.timeLeft = MINIGAME_TIME,
                   !.result = "null",
                   !.player = [x |-> Num(CANVAS_WIDTH \div 2)],
                   !.gasLines = << >>,
                   !.gameSpeed = Add(Num(1), Mul(r.gameState.depth, Frac(1, 50))),
                   !.spawnInterval = TRUE,
                   !.timerInterval = TRUE,
                   !.keydown = TRUE,
                   !.gameLoop = TRUE]

\* the trigger effect without the comparison to lastDepthForMinigame
TriggerEffect_LevelTriggered(w, r) ==
    LET w1 == setLastDepthForMinigame(w, Floor(r.gameState.depth))
    IN  IF Floor(r.gameState.depth) % 10 = 0 /\ Lt(Num(0), r.gameState.depth)
        THEN setMinigameOpen(w1, TRUE)
        ELSE w1

\* App: useEffect(..., [gameState.depth, lastDepthForMinigame])
TriggerEffect(w, r) ==
    IF Floor(r.gameState.depth) > r.lastDepthForMinigame
    THEN LET w1 == setLastDepthForMinigame(w, Floor(r.gameState.depth))
         IN  IF Floor(r.gameState.depth) % 10 = 0 /\ Lt(Num(0), r.gameState.depth)
             THEN setMinigameOpen(w1, TRUE)
             ELSE w1
    ELSE w

\* elapsed: the time since setInterval or its last callback; waited (an
\* observer): the time since the last auto tick, over every interval since
NoInterval ==
    [armed |-> FALSE, xpGainMultiplier |-> Num(1), elapsed |-> 0, waited |-> 0]

\* App: useEffect(..., [autoMineRate, autoMultiplier, getCurrentResource])
AutoMineEffect(w, r) ==
    IF r.gameState.autoMineRate = 0 THEN w
    ELSE [w EXCEPT !.interval =
            [armed |-> TRUE,
             xpGainMultiplier |-> r.gameState.upgrades.xpGainMultiplier,
             elapsed |-> 0,
             waited |-> w.interval.waited]]

\* render, then the cleanups and the effects whose dependencies changed,
\* children before parents
Commit(w) ==
    LET r0 == w.rendered
        appRender == w.appDirty
        mineDeps ==
            \/ w.gameState.clickPower # r0.gameState.clickPower
            \/ w.gameState.upgrades.clickMultiplier # r0.gameState.upgrades.clickMultiplier
            \/ w.gameState.depth # r0.gameState.depth
            \/ w.gameState.upgrades.rareResourceChance
                 # r0.gameState.upgrades.rareResourceChance
        r == [ gameState |-> w.gameState,
               minigameOpen |-> w.minigameOpen,
               lastDepthForMinigame |-> w.lastDepthForMinigame,
               result |-> w.result,
               mineXpGain |-> IF mineDeps
                              THEN w.gameState.upgrades.xpGainMultiplier
                              ELSE r0.mineXpGain ]
        runResult == appRender \/ r.result # r0.result
        runMinigame ==
            \/ appRender
            \/ r.minigameOpen # r0.minigameOpen
            \/ r.gameState.depth # r0.gameState.depth
        runTrigger ==
            \/ r.gameState.depth # r0.gameState.depth
            \/ r.lastDepthForMinigame # r0.lastDepthForMinigame
        runAuto ==
            \/ r.gameState.autoMineRate # r0.gameState.autoMineRate
            \/ r.gameState.upgrades.autoMultiplier # r0.gameState.upgrades.autoMultiplier
            \/ r.gameState.depth # r0.gameState.depth
        \* the dialog opens: the observers start afresh
        activated == r.minigameOpen /\ ~r0.minigameOpen
        w0 == [w EXCEPT !.rendered = r, !.appDirty = FALSE,
                        !.closed = IF activated THEN << >> ELSE @,
                        !.ticks = IF activated THEN 0 ELSE @]
        c1 == IF runMinigame THEN MinigameCleanup(w0) ELSE w0
        c2 == IF runAuto
              THEN [c1 EXCEPT !.interval =
                      [NoInterval EXCEPT !.waited = c1.interval.waited]]
              ELSE c1
        e1 == IF runResult THEN ResultEffect(c2, r) ELSE c2
        e2 == IF runMinigame THEN MinigameEffect(e1, r) ELSE e1
        e3 == IF runTrigger THEN TriggerEffect(e2, r) ELSE e2
        e4 == IF runAuto THEN AutoMineEffect(e3, r) ELSE e3
    IN  e4

(***************************************************************************)
(* The state after construction.                                           *)
(***************************************************************************)
RenderOf(g) ==
    [ gameState |-> g, minigameOpen |-> FALSE,
      lastDepthForMinigame |-> Floor(g.depth), result |-> "null",
      mineXpGain |-> g.upgrades.xpGainMultiplier ]

Init ==
    /\ gameState = InitialGameState
    /\ minigameOpen = FALSE
    /\ lastDepthForMinigame = 0
    /\ interval = NoInterval
    /\ timeLeft = MINIGAME_TIME
    /\ result = "null"
    /\ player = [x |-> Num(CANVAS_WIDTH \div 2)]
    /\ gasLines = << >>
    /\ gameSpeed = Num(1)
    /\ gameLoop = FALSE
    /\ spawnInterval = FALSE
    /\ timerInterval = FALSE
    /\ keydown = FALSE
    /\ rendered = RenderOf(InitialGameState)
    /\ appDirty = FALSE
    /\ closed = << >>
    /\ ticks = 0

(***************************************************************************)
(* App: the player's intents (click events) and the auto mining timer.     *)
(***************************************************************************)
Click(w) ==
    \E c \in {Commit(w)} : Becomes(c)

MineUpTo(cap) ==
    /\ Lt(gameState.totalMined, Num(cap))
    /\ \E rare \in RareDraws(rendered.gameState) :
         Click(setGameState(World,
                 mineResource(rendered.gameState, rendered.mineXpGain,
                              gameState, rare)))

Mine ==
    MineUpTo(MaxMined)

AutoTickUpTo(cap) ==
    /\ interval.armed
    /\ Lt(gameState.totalMined, Num(cap))
    /\ \E w \in {setGameState(World,
                   autoMine(rendered.gameState, interval.xpGainMultiplier,
                            gameState))} : Becomes(w)

\* the amounts sell is called with: all that is shown (the Sell All button),
\* pressed when a whole number of lots is held
SellAmounts(resourceId) ==
    {a \in {rendered.gameState[resourceId]} : a.d = 1 /\ a.n % SellLot = 0}

Sell ==
    \E resourceId \in ResourceIds :
      \E amount \in SellAmounts(resourceId) :
        /\ Lt(Num(0), amount)
        /\ IF sellAccepted(rendered.gameState, resourceId, amount)
           THEN Click(setGameState(World,
                        sellResource(rendered.gameState, gameState,
                                     resourceId, amount)))
           ELSE UNCHANGED vars

BuyEquipment ==
    \E equipmentId \in EquipmentIds :
        /\ gameState.equipment[equipmentId] < MaxOwned
        /\ IF buyEquipmentAccepted(rendered.gameState, equipmentId)
           THEN Click(setGameState(World,
                        buyEquipment(rendered.gameState, equipmentId)))
           ELSE UNCHANGED vars

BuyUpgrade ==
    \E upgradeId \in UpgradeIds :
        /\ gameState.moneyUpgrades[upgradeId] < MaxUpgradeLevel
        /\ IF buyMoneyUpgradeAccepted(rendered.gameState, upgradeId)
           THEN Click(setGameState(World,
                        buyMoneyUpgrade(rendered.gameState, gameState, upgradeId)))
           ELSE UNCHANGED vars

SpendSkillPoint ==
    \E skillId \in SkillIds :
        IF spendSkillPointAccepted(rendered.gameState, skillId)
        THEN Click(setGameState(World,
                     spendSkillPoint(rendered.gameState, gameState, skillId)))
        ELSE UNCHANGED vars

(***************************************************************************)
(* React: the commit asked for by a timer callback or by an effect.        *)
(***************************************************************************)
Render ==
    /\ appDirty \/ result # rendered.result
    /\ Click(World)

(***************************************************************************)
(* Minigame: countdown, dismissal.                                         *)
(***************************************************************************)
\* the callback of timerInterval, with the updater of setTimeLeft
TimerTick ==
    /\ timerInterval
    /\ IF timeLeft <= 1
       THEN /\ result' = "win"
            /\ timerInterval' = FALSE
            /\ spawnInterval' = FALSE
            /\ gameLoop' = FALSE
            /\ timeLeft' = 0
       ELSE /\ timeLeft' = timeLeft - 1
            /\ UNCHANGED <<result, timerInterval, spawnInterval, gameLoop>>
    /\ ticks' = IF ticks > MINIGAME_TIME THEN ticks ELSE ticks + 1
    /\ UNCHANGED <<gameState, minigameOpen, lastDepthForMinigame, interval,
                   player, gasLines, gameSpeed, keydown, rendered, appDirty,
                   closed>>

\* Dialog onOpenChange
Dismiss ==
    /\ rendered.minigameOpen
    /\ Click([World EXCEPT !.result = "lose"])

(***************************************************************************)
(* Minigame: obstacles, frames, keys.                                      *)
(***************************************************************************)
\* the values the three Math.random() draws of a spawn are taken from
SpawnWidths == {Num(50)}
SpawnXs == {Num(190)}
SpawnSpeeds == {Num(2)}

\* the callback of spawnInterval
Spawn ==
    /\ spawnInterval
    /\ Len(gasLines) < MaxGasLines
    /\ \E width \in SpawnWidths, x \in SpawnXs, speed \in SpawnSpeeds :
         /\ Le(Num(50), width) /\ Lt(width, Num(150))
         /\ Le(Num(0), x) /\ Lt(x, Sub(Num(CANVAS_WIDTH), width))
         /\ Le(Num(1), speed) /\ Lt(speed, Num(3))
         /\ gasLines' = Append(gasLines,
                [x |-> x, y |-> Num(GAS_START_Y), width |-> width,
                 height |-> Num(GAS_HEIGHT), speed |-> speed])
    /\ UNCHANGED <<gameState, minigameOpen, lastDepthForMinigame, interval,
                   timeLeft, result, player, gameSpeed, gameLoop, spawnInterval,
                   timerInterval, keydown, rendered, appDirty, closed, ticks>>

updateGasLines(lines, speed) ==
    LET moved == [i \in 1..Len(lines) |->
                    [lines[i] EXCEPT !.y = Add(@, Mul(lines[i].speed, speed))]]
    IN  SelectSeq(moved, LAMBDA line : Lt(line.y, Num(CANVAS_HEIGHT)))

Overlaps(p, line) ==
    /\ Lt(p.x, Add(line.x, line.width))
    /\ Lt(line.x, Add(p.x, Num(PLAYER_WIDTH)))
    /\ Lt(Num(PLAYER_Y), Add(line.y, line.height))
    /\ Lt(line.y, Num(PLAYER_Y + PLAYER_HEIGHT))

detectCollision(p, lines) ==
    \E i \in 1..Len(lines) : Overlaps(p, lines[i])

\* the animation frame callback game()
Frame ==
    /\ gameLoop
    /\ gasLines' = updateGasLines(gasLines, gameSpeed)
    /\ IF detectCollision(player, gasLines')
       THEN result' = "lose" /\ gameLoop' = FALSE
       ELSE UNCHANGED <<result, gameLoop>>
    /\ UNCHANGED <<gameState, minigameOpen, lastDepthForMinigame, interval,
                   timeLeft, player, gameSpeed, spawnInterval, timerInterval,
                   keydown, rendered, appDirty, closed, ticks>>

handleKeyDown(p, key) ==
    IF key = "ArrowLeft"
    THEN [p EXCEPT !.x = IF Lt(Sub(p.x, Num(KEY_STEP)), Num(0))
                         THEN Num(0) ELSE Sub(p.x, Num(KEY_STEP))]
    ELSE IF key = "ArrowRight"
    THEN [p EXCEPT !.x = IF Lt(Num(CANVAS_WIDTH - PLAYER_WIDTH), Add(p.x, Num(KEY_STEP)))
                         THEN Num(CANVAS_WIDTH - PLAYER_WIDTH)
                         ELSE Add(p.x, Num(KEY_STEP))]
    ELSE p

KeyDown ==
    /\ keydown
    /\ \E key \in {"ArrowLeft", "ArrowRight"} :
         /\ player' = handleKeyDown(player, key)
         /\ Le(Sub(Num(CANVAS_WIDTH \div 2), Num(MaxKeySteps * KEY_STEP)), player'.x)
         /\ Le(player'.x, Add(Num(CANVAS_WIDTH \div 2), Num(MaxKeySteps * KEY_STEP)))
    /\ UNCHANGED <<gameState, minigameOpen, lastDepthForMinigame, interval,
                   timeLeft, result, gasLines, gameSpeed, gameLoop,
                   spawnInterval, timerInterval, keydown, rendered, appDirty,
                   closed, ticks>>

(***************************************************************************)
(* Spec: a session from its construction; the minigame is resolved by its  *)
(* countdown or dismissed.                                                 *)
(***************************************************************************)
Next ==
    \/ Mine
    \/ Sell
    \/ BuyEquipment
    \/ BuyUpgrade
    \/ SpendSkillPoint
    \/ Render
    \/ TimerTick
    \/ Dismiss

Spec == Init /\ [][Next]_vars

(***************************************************************************)
(* Sessions played up to a later point.  Each is the construction state    *)
(* taken through the handlers above, every minigame on the way dismissed.  *)
(***************************************************************************)
RECURSIVE Mines(_, _)
Mines(g, n) ==
    IF n = 0 THEN g
    ELSE IF n = 1 THEN mineResource(g, g.upgrades.xpGainMultiplier, g, FALSE)
    ELSE CHOOSE r \in {Mines(h, n - (n \div 2)) : h \in {Mines(g, n \div 2)}} : TRUE

Lost(g) ==
    [g EXCEPT !.money = Num(0)]

SellAll(g, resourceId) ==
    sellResource(g, g, resourceId, g[resourceId])

\* 100 coal and 100 iron mined, both minigames dismissed, all sold
AtDepth20 ==
    SellAll(SellAll(Lost(Mines(Lost(Mines(InitialGameState, 100)), 100)),
                    "coal"), "iron")

Upgraded(g, upgradeId) ==
    buyMoneyUpgrade(g, g, upgradeId)

\* ... then two steel pickaxes bought, nine more clicks (depth 29.9) and
\* the last 100 spent on Reinforced Clicks
TwoSteel ==
    Upgraded(Mines(buyEquipment(buyEquipment(AtDepth20, "steel_pickaxe"),
                                "steel_pickaxe"), 9), "click_power_1")

\* ... or a steel pickaxe and an auto miner, sixteen clicks (depth 29.6)
\* and the last 100 spent on Reinforced Clicks
SteelAndAuto ==
    Upgraded(Mines(buyEquipment(buyEquipment(AtDepth20, "steel_pickaxe"),
                                "auto_miner"), 16), "click_power_1")

\* 4999 clicks with the pickaxe of the start (depth 499.9), every minigame
\* dismissed, then the iron sold and an auto miner bought
AtDepth500 ==
    buyEquipment(SellAll(Mines(InitialGameState, 4999), "iron"), "auto_miner")

InitAt(g) ==
    /\ gameState = g
    /\ minigameOpen = FALSE
    /\ lastDepthForMinigame = Floor(g.depth)
    /\ interval = IF g.autoMineRate = 0 THEN NoInterval
                  ELSE [armed |-> TRUE,
                        xpGainMultiplier |-> g.upgrades.xpGainMultiplier,
                        elapsed |-> 0, waited |-> 0]
    /\ timeLeft = MINIGAME_TIME
    /\ result = "null"
    /\ player = [x |-> Num(CANVAS_WIDTH \div 2)]
    /\ gasLines = << >>
    /\ gameSpeed = Num(1)
    /\ gameLoop = FALSE
    /\ spawnInterval = FALSE
    /\ timerInterval = FALSE
    /\ keydown = FALSE
    /\ rendered = RenderOf(g)
    /\ appDirty = FALSE
    /\ closed = << >>
    /\ ticks = 0

(***************************************************************************)
(* SpecDeep: the economy around depth 30, with large click power or with   *)
(* auto mining.                                                            *)
(***************************************************************************)
InitDeep ==
    \E g \in {TwoSteel, SteelAndAuto} : InitAt(g)

DeepMine ==
    MineUpTo(MaxDeepMined)

AutoTick ==
    AutoTickUpTo(MaxDeepMined)

NextDeep ==
    \/ DeepMine
    \/ AutoTick
    \/ Render
    \/ TimerTick
    \/ Dismiss

SpecDeep == InitDeep /\ [][NextDeep]_vars

(***************************************************************************)
(* SpecMinigame: the minigame entered at depth 500, the auto miner of the   *)
(* host running meanwhile.                                                 *)
(***************************************************************************)
InitMinigame ==
    InitAt(AtDepth500)

HostAutoTick ==
    AutoTickUpTo(MaxHostMined)

NextMinigame ==
    \/ HostAutoTick
    \/ Render
    \/ TimerTick
    \/ Dismiss
    \/ Spawn
    \/ Frame
    \/ KeyDown

SpecMinigame == InitMinigame /\ [][NextMinigame]_vars

(***************************************************************************)
(* SpecSkills: the skill tree with 26 skill points to spend, one click     *)
(* away from the minigame of depth 69190.                                  *)
(***************************************************************************)
\* 4999 clicks, the diamonds sold, two mega drills bought, 6800 clicks more
\* (depth 69179.9, every minigame dismissed), the diamonds sold: level 27
Veteran ==
    SellAll(Lost(Mines(buyEquipment(buyEquipment(
        SellAll(Mines(InitialGameState, 4999), "diamond"),
        "mega_drill"), "mega_drill"), 6800)), "diamond")

InitSkills ==
    InitAt(Veteran)

SkillMine ==
    MineUpTo(MaxSkillMined)

NextSkills ==
    \/ SpendSkillPoint
    \/ SkillMine
    \/ Render
    \/ Dismiss

SpecSkills == InitSkills /\ [][NextSkills]_vars

(***************************************************************************)
(* SpecXp: gainXp applied to players of level 1 to 3, with grants of       *)
(* WIN_XP and of 1, 2.5 and 10 times xpToNextLevel.                        *)
(***************************************************************************)
\* TwoSteel with one of its skill points spent on xp_gain
TwoSteelXp ==
    spendSkillPoint(TwoSteel, TwoSteel, "xp_gain")

InitXp ==
    \E g \in {InitialGameState, AtDepth20, TwoSteel, TwoSteelXp} : InitAt(g)

\* the amounts gainXp is called with: xpGained is WIN_XP * multiplier, or
\* 1, 2.5 or 10 times xpToNextLevel
XpGrants(g) ==
    LET m == g.upgrades.xpGainMultiplier
        perXp == [n |-> m.d, d |-> m.n]
        T == Num(g.xpToNextLevel)
    IN  {Num(WIN_XP), Mul(T, perXp), Mul(Mul(Frac(5, 2), T), perXp),
         Mul(Mul(Num(10), T), perXp)}

GrantXp ==
    /\ gameState.level < MaxXpLevel
    /\ \E amount \in XpGrants(gameState) :
         Click(setGameState(World,
                 gainXp(rendered.gameState.upgrades.xpGainMultiplier,
                        gameState, amount)))

NextXp ==
    GrantXp

SpecXp == InitXp /\ [][NextXp]_vars

(***************************************************************************)
(* SpecShop: the shop, with 125 money or with 449900.                      *)
(***************************************************************************)
\* 100 coal and 5 iron mined, the minigame of depth 10 dismissed, all sold
Pocket125 ==
    SellAll(SellAll(Mines(Lost(Mines(InitialGameState, 100)), 5), "coal"),
            "iron")

\* 4999 clicks with the pickaxe of the start, every minigame dismissed, the
\* diamonds sold
ShopRich ==
    SellAll(Lost(Mines(InitialGameState, 4999)), "diamond")

InitShop ==
    \E g \in {Pocket125, ShopRich} : InitAt(g)

NextShop ==
    BuyEquipment

SpecShop == InitShop /\ [][NextShop]_vars

(***************************************************************************)
(* SpecUpgrades: the shop of equipment and money upgrades, with 7100.      *)
(***************************************************************************)
\* 500 clicks with the pickaxe of the start (depth 50), every minigame
\* dismissed, then the coal, the iron and the gold sold
Pocket7100 ==
    SellAll(SellAll(SellAll(Lost(Mines(InitialGameState, 500)), "coal"),
                    "iron"), "gold")

InitUpgrades ==
    InitAt(Pocket7100)

NextUpgrades ==
    \/ BuyUpgrade
    \/ BuyEquipment

SpecUpgrades == InitUpgrades /\ [][NextUpgrades]_vars

(***************************************************************************)
(* SpecSell: sellResource called with a lot, with the amount held and with *)
(* one more than is held, at multipliers of 1 and at sellPriceMultiplier   *)
(* 1.05 with xpGainMultiplier 1.1.                                         *)
(***************************************************************************)
\* 500 clicks with the pickaxe of the start (depth 50), every minigame
\* dismissed: 100 coal, 150 iron and 250 gold held
Unsold ==
    Lost(Mines(InitialGameState, 500))

\* ... then the gold sold, sell_bonus_1 bought, and a skill point spent on
\* each of click_power_boost, auto_mine_speed and xp_gain
Stocked ==
    LET g1 == Upgraded(SellAll(Unsold, "gold"), "sell_bonus_1")
        g2 == spendSkillPoint(g1, g1, "click_power_boost")
        g3 == spendSkillPoint(g2, g2, "auto_mine_speed")
    IN  spendSkillPoint(g3, g3, "xp_gain")

InitSell ==
    \E g \in {Unsold, Stocked} : InitAt(g)

\* the amounts sellResource is called with
SellCalls(resourceId) ==
    {Num(SellLot), rendered.gameState[resourceId],
     Add(rendered.gameState[resourceId], Num(1))}

SellCallOf(resourceId, amount) ==
    IF sellAccepted(rendered.gameState, resourceId, amount)
    THEN Click(setGameState(World,
                 sellResource(rendered.gameState, gameState,
                              resourceId, amount)))
    ELSE UNCHANGED vars

SellCall ==
    \E resourceId \in ResourceIds :
      \E amount \in SellCalls(resourceId) : SellCallOf(resourceId, amount)

SellMine ==
    MineUpTo(MaxSellMined)

NextSell ==
    \/ SellCall
    \/ SellMine

SpecSell == InitSell /\ [][NextSell]_vars

(***************************************************************************)
(* SpecSeam: an auto miner at depth 49.9, just above the diamond seam and  *)
(* the minigame of depth 50, with 100 money and 3 skill points.            *)
(***************************************************************************)
\* 100 coal and 150 iron mined, the iron sold and an auto miner bought, 249
\* gold mined (depth 49.9, every minigame dismissed), then the coal sold
NearDiamond ==
    SellAll(Lost(Mines(buyEquipment(
        SellAll(Lost(Mines(InitialGameState, 250)), "iron"),
        "auto_miner"), 249)), "coal")

InitSeam ==
    InitAt(NearDiamond)

SeamMine ==
    MineUpTo(MaxSeamMined)

SeamAutoTick ==
    AutoTickUpTo(MaxSeamMined)

NextSeam ==
    \/ SeamMine
    \/ SeamAutoTick
    \/ BuyEquipment
    \/ BuyUpgrade
    \/ SpendSkillPoint
    \/ Render
    \/ Dismiss

SpecSeam == InitSeam /\ [][NextSeam]_vars

(***************************************************************************)
(* SpecTimer: the auto mining interval in time.  Time passes in steps of   *)
(* half the period; a render that was asked for is done before time        *)
(* passes, and the callback of an interval runs as soon as its period has  *)
(* elapsed.  One auto miner at depth 40, away from the next minigame.      *)
(***************************************************************************)
\* 100 coal and 150 iron mined, the iron sold and an auto miner bought, 150
\* gold mined (depth 40, every minigame dismissed)
AutoAt40 ==
    Lost(Mines(buyEquipment(
        SellAll(Lost(Mines(InitialGameState, 250)), "iron"),
        "auto_miner"), 150))

InitTimer ==
    InitAt(AutoAt40)

TimerMine ==
    MineUpTo(MaxTimerMined)

\* half a period passes
Elapse ==
    /\ interval.armed
    /\ ~appDirty /\ result = rendered.result
    /\ interval.elapsed < AUTO_INTERVAL
    /\ interval.waited < MaxWaited
    /\ interval' = [interval EXCEPT !.elapsed = @ + TimeStep,
                                    !.waited = @ + TimeStep]
    /\ UNCHANGED <<gameState, minigameOpen, lastDepthForMinigame, timeLeft,
                   result, player, gasLines, gameSpeed, gameLoop,
                   spawnInterval, timerInterval, keydown, rendered, appDirty,
                   closed, ticks>>

\* the callback of the auto mining interval, when its period has elapsed
DueAutoTick ==
    /\ interval.armed
    /\ interval.elapsed >= AUTO_INTERVAL
    /\ Lt(gameState.totalMined, Num(MaxTimerMined))
    /\ \E w \in {[setGameState(World,
                     autoMine(rendered.gameState, interval.xpGainMultiplier,
                              gameState))
                     EXCEPT !.interval.elapsed = 0, !.interval.waited = 0]} :
         Becomes(w)

NextTimer ==
    \/ TimerMine
    \/ DueAutoTick
    \/ Elapse
    \/ Render

SpecTimer == InitTimer /\ [][NextTimer]_vars

(***************************************************************************)
(* SpecIds: the four handlers that take an identifier, called with the     *)
(* ids of every catalog, with names of fields of gameState and with a name *)
(* that is nowhere; 100 coal and 4 skill points are held.                  *)
(***************************************************************************)
\* Unsold with the iron and the gold sold and the money lost in a minigame
CoalOnly ==
    Lost(SellAll(SellAll(Unsold, "iron"), "gold"))

InitIds ==
    InitAt(CoalOnly)

AnyIds ==
    ResourceIds \cup EquipmentIds \cup UpgradeIds \cup SkillIds
      \cup {"money", "depth", "uranium"}

\* sellResource accepting any numeric field of gameState, at value 1
SellAnyIdOf_AnyField(id) ==
    IF id \in ResourceIds
    THEN SellCallOf(id, Num(SellLot))
    ELSE IF id \in {"money", "depth"} /\ ~Lt(rendered.gameState[id], Num(SellLot))
    THEN Click(setGameState(World,
                 [gainXp(rendered.gameState.upgrades.xpGainMultiplier,
                         gameState, Mul(Num(SellLot), Frac(1, 10)))
                    EXCEPT ![id] = Sub(@, Num(SellLot)),
                           !.money = Add(@, Num(SellLot))]))
    ELSE UNCHANGED vars

SellAnyIdOf(id) ==
    SellCallOf(id, Num(SellLot))

BuyEquipmentOf(id) ==
    IF buyEquipmentAccepted(rendered.gameState, id)
    THEN /\ gameState.equipment[id] < MaxOwned
         /\ Click(setGameState(World, buyEquipment(rendered.gameState, id)))
    ELSE UNCHANGED vars

BuyUpgradeOf(id) ==
    IF buyMoneyUpgradeAccepted(rendered.gameState, id)
    THEN /\ gameState.moneyUpgrades[id] < MaxUpgradeLevel
         /\ Click(setGameState(World,
                    buyMoneyUpgrade(rendered.gameState, gameState, id)))
    ELSE UNCHANGED vars

SpendSkillPointOf(id) ==
    IF spendSkillPointAccepted(rendered.gameState, id)
    THEN Click(setGameState(World,
                 spendSkillPoint(rendered.gameState, gameState, id)))
    ELSE UNCHANGED vars

SellAnyId ==
    \E id \in AnyIds : SellAnyIdOf(id)

BuyEquipmentAnyId ==
    \E id \in AnyIds : BuyEquipmentOf(id)

BuyUpgradeAnyId ==
    \E id \in AnyIds : BuyUpgradeOf(id)

SpendSkillPointAnyId ==
    \E id \in AnyIds : SpendSkillPointOf(id)

NextIds ==
    \/ SellAnyId
    \/ BuyEquipmentAnyId
    \/ BuyUpgradeAnyId
    \/ SpendSkillPointAnyId

SpecIds == InitIds /\ [][NextIds]_vars

(***************************************************************************)
(* SpecReentry: two minigames in a row.  With clickPower 101 every click   *)
(* takes depth over the next multiple of 10: the minigames of depth 69190  *)
(* and of depth 69200, each won by its countdown or lost by dismissal.     *)
(***************************************************************************)
InitReentry ==
    InitAt(Veteran)

ReentryMine ==
    /\ ~rendered.minigameOpen
    /\ MineUpTo(MaxReentryMined)

NextReentry ==
    \/ ReentryMine
    \/ Render
    \/ TimerTick
    \/ Dismiss
    \/ Spawn
    \/ Frame
    \/ KeyDown

SpecReentry == InitReentry /\ [][NextReentry]_vars

(***************************************************************************)
(* Claims.                                                                 *)
(***************************************************************************)

\* C1: the level of a skill does not change while one of its prerequisite
\* skills is at level 0, whatever the skill points.
C1_PrerequisitesEnforced ==
    [][\A skillId \in SkillIds :
         ~dependenciesMet(gameState, skillId)
           => gameState'.skills[skillId] = gameState.skills[skillId]]_vars

\* C2: no step lowers clickMultiplier, autoMultiplier or sellPriceMultiplier
\* once an upgrade has been bought: the factors of the upgrades stay in.
C2_UpgradeEffectsKept ==
    [][(\E upgradeId \in UpgradeIds : gameState.moneyUpgrades[upgradeId] > 0)
         => /\ Le(gameState.upgrades.clickMultiplier,
                  gameState'.upgrades.clickMultiplier)
            /\ Le(gameState.upgrades.autoMultiplier,
                  gameState'.upgrades.autoMultiplier)
            /\ Le(gameState.upgrades.sellPriceMultiplier,
                  gameState'.upgrades.sellPriceMultiplier)]_vars

\* C3: the commit that shows floor(depth) newly at a positive multiple of 10
\* opens the minigame, and the minigame is opened by no other step: not by
\* one that leaves floor(depth) where it was.
C3_EdgeTriggered ==
    [][LET before == Floor(rendered.gameState.depth)
           after == Floor(rendered'.gameState.depth)
       IN  /\ (after # before /\ after % 10 = 0 /\ after > 0) => minigameOpen'
           /\ (~minigameOpen /\ minigameOpen')
                => (after > before /\ after % 10 = 0)]_vars

\* C3 witness: the minigame of depth 30 was entered and dismissed, and an
\* operation has since moved depth within floor 30.
C3_Witness ==
    /\ ~minigameOpen /\ ~rendered.minigameOpen
    /\ closed # << >>
    /\ lastDepthForMinigame = 30
    /\ Floor(rendered.gameState.depth) = 30
    /\ Lt(Num(30), rendered.gameState.depth)

\* C4: the commit that shows depth taken from below a positive multiple of
\* 10 to at or above it opens the minigame.
C4_EveryCrossingEnters ==
    [][(Floor(rendered.gameState.depth) \div 10
          < Floor(rendered'.gameState.depth) \div 10) => minigameOpen']_vars

\* C5: a frame that finds the player overlapping an obstacle sets the outcome
\* to lose in that frame, and an outcome that is lose never becomes win.
C5_LostStaysLost ==
    [][/\ (Frame /\ detectCollision(player, gasLines')) => result' = "lose"
       /\ result = "lose" => result' # "win"]_vars

\* C6: the outcome is win only when the countdown has run exactly
\* MINIGAME_TIME times since the minigame was entered.
C6_WonAfterTenTicks ==
    result = "win" => ticks = MINIGAME_TIME

\* C7: while an outcome (win or lose) is set, the frame loop, the spawner and
\* the countdown are all stopped.
C7_OutcomeStopsProcesses ==
    result # "null" => (~gameLoop /\ ~spawnInterval /\ ~timerInterval)

\* C8: at most one result is passed to onClose per activation.
C8_ReportedOnce ==
    Len(closed) <= 1

\* C9: once minigameOpen is false, the frame loop, the spawner and the
\* countdown are all stopped.
C9_ClosedHaltsProcesses ==
    ~minigameOpen => (~gameLoop /\ ~spawnInterval /\ ~timerInterval)

\* C10: dismissing the dialog while no outcome is set and none was reported
\* passes lose to onClose and sets money to 0.
C10_DismissIsLost ==
    [][(Dismiss /\ result = "null" /\ closed = << >>)
         => (closed' = <<"lose">> /\ gameState'.money = Num(0))]_vars

\* C10 witness: 50 coal was sold and nothing bought, so money was 50; the
\* minigame of depth 10 was then dismissed, and money is 0.
C10_Witness ==
    /\ closed = <<"lose">>
    /\ gameState.money = Num(0)
    /\ gameState.totalMined = Num(100)
    /\ gameState.coal = Num(50)
    /\ \A equipmentId \in EquipmentIds : gameState.equipment[equipmentId] = 0
    /\ \A upgradeId \in UpgradeIds : gameState.moneyUpgrades[upgradeId] = 0

\* C11: the step that passes lose to onClose sets money to 0 and leaves
\* every other field of gameState as it was.
C11_LossTakesOnlyMoney ==
    [][(Len(closed') = Len(closed) + 1 /\ closed'[Len(closed')] = "lose")
         => gameState' = [gameState EXCEPT !.money = Num(0)]]_vars

\* C11 witness: 50 coal sold, a basic pickaxe bought, 50 coal more mined and
\* sold (money 50), then the minigame of depth 10 dismissed: money is 0 and
\* the pickaxe, the depth and the level are kept.
C11_Witness ==
    /\ closed = <<"lose">>
    /\ gameState.money = Num(0)
    /\ gameState.coal = Num(0)
    /\ gameState.totalMined = Num(100)
    /\ gameState.depth = Num(10)
    /\ gameState.equipment["basic_pickaxe"] = 1
    /\ gameState.clickPower = 2
    /\ gameState.level = 2

\* C12: a commit (with no handler of the player in the same step) that
\* passes win to onClose applies gainXp with WIN_XP to gameState and changes
\* nothing else; one that passes lose leaves xp, level and skillPoints.
C12_WinGrantsXp ==
    [][/\ ((Render \/ Dismiss) /\ closed' = Append(closed, "win"))
          => /\ gameState' = gainXp(gameState.upgrades.xpGainMultiplier,
                                    gameState, Num(WIN_XP))
             /\ gameState'.money = gameState.money
       /\ ((Render \/ Dismiss) /\ closed' = Append(closed, "lose"))
          => /\ gameState'.xp = gameState.xp
             /\ gameState'.level = gameState.level
             /\ gameState'.skillPoints = gameState.skillPoints]_vars

\* C12 witness: the minigame of depth 10 was won with xp_gain at level 1
\* and 100 coal sold: 10 * 1.1 + 50 * 1.1 = 66 xp, money still 100.
C12_Witness ==
    /\ closed = <<"win">>
    /\ gameState.skills["xp_gain"] = 1
    /\ gameState.xp = Num(66)
    /\ gameState.money = Num(100)

\* C13: the commit that opens the dialog while minigame_bonus is at level L
\* starts the countdown at MINIGAME_TIME + L.
C13_BonusExtendsCountdown ==
    [][(/\ ~rendered.minigameOpen /\ rendered'.minigameOpen
        /\ gameState'.skills = gameState.skills)
         => timeLeft' = MINIGAME_TIME + gameState.skills["minigame_bonus"]]_vars

\* C14: a step that changes the level of a skill raises it by one, takes
\* getCost of the old level from skillPoints, leaves the other skills, and
\* sets the multiplier of the skill to its formula of the new level, leaving
\* the other multipliers.
C14_SpendSkillPointEffect ==
    [][\A skillId \in SkillIds :
         gameState'.skills[skillId] # gameState.skills[skillId]
           => LET skill == Find(SKILL_TREE, skillId)
                  L == gameState.skills[skillId] + 1
              IN  /\ gameState'.skills = [gameState.skills EXCEPT ![skillId] = L]
                  /\ gameState'.skillPoints
                       = gameState.skillPoints - getCost(skill, L - 1)
                  /\ gameState'.upgrades =
                       [gameState.upgrades EXCEPT
                          !.clickMultiplier =
                              IF skillId = "click_power_boost"
                              THEN Add(Num(1), Mul(Frac(1, 20), Num(L))) ELSE @,
                          !.autoMultiplier =
                              IF skillId = "auto_mine_speed"
                              THEN Add(Num(1), Mul(Frac(1, 20), Num(L))) ELSE @,
                          !.xpGainMultiplier =
                              IF skillId = "xp_gain"
                              THEN Add(Num(1), Mul(Frac(1, 10), Num(L))) ELSE @,
                          !.rareResourceChance =
                              IF skillId = "rare_resource_chance"
                              THEN L ELSE @]]_vars

\* C14 witness: click_power_boost bought twice and xp_gain once out of 26
\* skill points.
C14_Witness ==
    /\ gameState.skills["click_power_boost"] = 2
    /\ gameState.upgrades.clickMultiplier = Frac(11, 10)
    /\ gameState.skills["xp_gain"] = 1
    /\ gameState.upgrades.xpGainMultiplier = Frac(11, 10)
    /\ gameState.skillPoints = 22

\* C15: every skill level stays within 0..maxLevel, and no step changes the
\* level of a skill that is at maxLevel or costs more than the skill points
\* held.
C15_SkillLevelsBounded ==
    [][\A skillId \in SkillIds :
         LET skill == Find(SKILL_TREE, skillId)
         IN  /\ gameState'.skills[skillId] \in 0..skill.maxLevel
             /\ (\/ gameState.skills[skillId] >= skill.maxLevel
                 \/ gameState.skillPoints
                      < getCost(skill, gameState.skills[skillId]))
                  => gameState'.skills[skillId] = gameState.skills[skillId]]_vars

\* C15 witness: minigame_bonus is at its maxLevel 3 with the 11 skill points
\* a fourth level would cost still held.
C15_Witness ==
    /\ gameState.skills["minigame_bonus"] = 3
    /\ gameState.skillPoints = 11

\* C16: a call of gainXp whose xpGained equals xpToNextLevel raises level by
\* one and skillPoints by one, and sets xpToNextLevel to floor(1.5 times it).
C16_ThresholdGrantOneLevel ==
    [][\A amount \in XpGrants(gameState) :
         (/\ gameState' = gainXp(gameState.upgrades.xpGainMultiplier,
                                 gameState, amount)
          /\ Mul(amount, gameState.upgrades.xpGainMultiplier)
               = Num(gameState.xpToNextLevel))
           => /\ gameState'.level = gameState.level + 1
              /\ gameState'.skillPoints = gameState.skillPoints + 1
              /\ gameState'.xpToNextLevel
                   = Floor(Mul(Num(gameState.xpToNextLevel), Frac(3, 2)))
              /\ gameState'.xp = gameState.xp]_vars

\* C16 witness: 100 xp granted to the player of the start.
C16_Witness ==
    /\ gameState.totalMined = Num(0)
    /\ gameState.level = 2
    /\ gameState.skillPoints = 1
    /\ gameState.xp = Num(0)
    /\ gameState.xpToNextLevel = 150

\* C17: a call of gainXp whose xpGained is 2.5 times xpToNextLevel raises
\* level by two at least, and after every call 0 <= xp < xpToNextLevel.
C17_SeveralLevelUps ==
    [][/\ \A amount \in XpGrants(gameState) :
            (/\ gameState' = gainXp(gameState.upgrades.xpGainMultiplier,
                                    gameState, amount)
             /\ Mul(amount, gameState.upgrades.xpGainMultiplier)
                  = Mul(Frac(5, 2), Num(gameState.xpToNextLevel)))
              => /\ gameState'.level >= gameState.level + 2
                 /\ gameState'.skillPoints - gameState.skillPoints
                      = gameState'.level - gameState.level
       /\ Le(Num(0), gameState'.xp)
       /\ Lt(gameState'.xp, Num(gameState'.xpToNextLevel))]_vars

\* C17 witness: 250 xp granted to the player of the start: levels 2 and 3.
C17_Witness ==
    /\ gameState.totalMined = Num(0)
    /\ gameState.level = 3
    /\ gameState.skillPoints = 2
    /\ gameState.xp = Num(0)
    /\ gameState.xpToNextLevel = 225

\* C18: the loop of gainXp stops: every pass takes at least the threshold
\* the call started with from xp, so the passes of a call (the levels it
\* adds) times that threshold do not exceed xp + xpGained.
C18_LevelUpLoopBounded ==
    [][\A amount \in XpGrants(gameState) :
         gameState' = gainXp(gameState.upgrades.xpGainMultiplier,
                             gameState, amount)
           => /\ gameState'.level >= gameState.level
              /\ Le(Num((gameState'.level - gameState.level)
                           * gameState.xpToNextLevel),
                    Add(gameState.xp,
                        Mul(amount, gameState.upgrades.xpGainMultiplier)))]_vars

\* C18 witness: 1000 xp granted to the player of the start: four passes of
\* the loop (100, 150, 225, 337), 188 xp left.
C18_Witness ==
    /\ gameState.totalMined = Num(0)
    /\ gameState.level = 5
    /\ gameState.skillPoints = 4
    /\ gameState.xp = Num(188)
    /\ gameState.xpToNextLevel = 505

C20_DerivedStats ==
    /\ gameState.clickPower
         = 1 + SumPower(gameState.equipment, {"pickaxe", "drill"},
                        Len(INITIAL_EQUIPMENT))
    /\ gameState.autoMineRate
         = SumPower(gameState.equipment, {"automation"}, Len(INITIAL_EQUIPMENT))

\* C20 witness: one steel pickaxe, one drill and two auto drills are owned:
\* clickPower 16, autoMineRate 10.
C20_Witness ==
    /\ gameState.equipment
         = [e \in EquipmentIds |->
              IF e \in {"steel_pickaxe", "drill"} THEN 1
              ELSE IF e = "auto_drill" THEN 2 ELSE 0]
    /\ gameState.clickPower = 16
    /\ gameState.autoMineRate = 10

C22_SellRejected ==
    [][\A resourceId \in ResourceIds :
         /\ \A amount \in SellCalls(resourceId) :
              Lt(gameState[resourceId], amount)
                => /\ ~sellAccepted(gameState, resourceId, amount)
                   /\ SellCallOf(resourceId, amount) => UNCHANGED vars
         /\ Le(Num(0), gameState'[resourceId])]_vars

\* C22 witness: the 100 coal were sold in two lots; nothing is left for the
\* call that asks for a lot more.
C22_Witness ==
    /\ gameState.coal = Num(0)
    /\ gameState.money = Num(100)
    /\ gameState.iron = Num(150)
    /\ Lt(gameState.coal, Num(SellLot))
    /\ ~sellAccepted(gameState, "coal", Num(SellLot))

\* C23: an accepted call of sellResource takes amount from the quantity of
\* that resource, adds amount * value * sellPriceMultiplier to money, grants
\* a tenth of that through gainXp, and changes nothing else: not the other
\* quantities, depth or totalMined.
C23_SellEffect ==
    [][\A resourceId \in ResourceIds :
         \A amount \in SellCalls(resourceId) :
           (/\ Le(amount, gameState[resourceId])
            /\ SellCallOf(resourceId, amount))
             => LET moneyGained ==
                        Mul(amount,
                            Mul(Num(Find(RESOURCES, resourceId).value),
                                gameState.upgrades.sellPriceMultiplier))
                    granted ==
                        gainXp(gameState.upgrades.xpGainMultiplier, gameState,
                               Mul(moneyGained, Frac(1, 10)))
                IN  /\ gameState' =
                         [granted EXCEPT
                            ![resourceId] = Sub(gameState[resourceId], amount),
                            !.money = Add(gameState.money, moneyGained)]
                    /\ \A other \in ResourceIds \ {resourceId} :
                         gameState'[other] = gameState[other]
                    /\ gameState'.depth = gameState.depth
                    /\ gameState'.totalMined = gameState.totalMined]_vars

\* C23 witness: with sellPriceMultiplier 1.05 and xpGainMultiplier 1.1, a
\* lot of 50 iron was sold out of 150: 50 * 5 * 1.05 = 262.5 money, and
\* 26.25 * 1.1 = 28.875 xp.
C23_Witness ==
    /\ gameState.iron = Num(100)
    /\ gameState.coal = Num(100)
    /\ gameState.money = Add(Stocked.money, Frac(525, 2))
    /\ gameState.upgrades.sellPriceMultiplier = Frac(21, 20)
    /\ gameState.upgrades.xpGainMultiplier = Frac(11, 10)
    /\ gameState.level = Stocked.level
    /\ gameState.xp = Add(Stocked.xp, Frac(231, 8))
    /\ gameState.totalMined = Num(500)

\* C24: the resource of a depth is the kind with the largest unlockDepth
\* not above it (coal below 10, iron below 25, gold below 50, diamond from
\* 50), and every step that mines (a click or an auto tick) credits what it
\* mined to the kind of the depth gameState held when the step was taken.
C24_KindOfDepth ==
    [][LET d == gameState.depth
           kind == getCurrentResource(d).id
           mined == Sub(gameState'.totalMined, gameState.totalMined)
       IN  /\ kind = IF Lt(d, Num(10)) THEN "coal"
                     ELSE IF Lt(d, Num(25)) THEN "iron"
                     ELSE IF Lt(d, Num(50)) THEN "gold"
                     ELSE "diamond"
           /\ Lt(Num(0), mined)
                => gameState'[kind] = Add(gameState[kind], mined)]_vars

\* the skills held were bought as the skill panel allows: none above level 0
\* while one of its prerequisites is at level 0
PanelSkills ==
    \A skillId \in SkillIds :
      gameState.skills[skillId] > 0 => dependenciesMet(gameState, skillId)

\* C25: a click on Mine, with power = clickPower * clickMultiplier (doubled
\* on a rare find only), adds power to one resource and to totalMined, adds
\* power * 0.1 to depth and applies gainXp of power at the xpGainMultiplier
\* held; nothing else changes.
C25_MineEffect ==
    [][(SeamMine /\ PanelSkills)
         => \E rare \in RareDraws(gameState), kind \in ResourceIds :
              LET base == Mul(Num(gameState.clickPower),
                              gameState.upgrades.clickMultiplier)
                  power == IF rare THEN Mul(Num(2), base) ELSE base
                  granted == gainXp(gameState.upgrades.xpGainMultiplier,
                                    gameState, power)
              IN  gameState' =
                    [granted EXCEPT
                       ![kind] = Add(gameState[kind], power),
                       !.totalMined = Add(gameState.totalMined, power),
                       !.depth = Add(gameState.depth,
                                     Mul(power, Frac(1, 10)))]]_vars

\* C26: an auto tick, with power = autoMineRate * autoMultiplier, adds power
\* to one resource and to totalMined, adds power * 0.05 to depth and applies
\* gainXp of power / 2 at the xpGainMultiplier held, without any doubling;
\* nothing else changes.
C26_AutoTickEffect ==
    [][(SeamAutoTick /\ PanelSkills)
         => \E kind \in ResourceIds :
              LET power == Mul(Num(gameState.autoMineRate),
                               gameState.upgrades.autoMultiplier)
                  granted == gainXp(gameState.upgrades.xpGainMultiplier,
                                    gameState, Mul(power, Frac(1, 2)))
              IN  gameState' =
                    [granted EXCEPT
                       ![kind] = Add(gameState[kind], power),
                       !.totalMined = Add(gameState.totalMined, power),
                       !.depth = Add(gameState.depth,
                                     Mul(power, Frac(1, 20)))]]_vars

\* C27: while autoMineRate > 0 the interval ticks once per period: never
\* does more than AUTO_INTERVAL pass without an auto tick, however the
\* player clicks on Mine meanwhile; and no tick fires while autoMineRate
\* is 0.
C27_TickEachInterval ==
    [][/\ gameState.autoMineRate > 0 => interval'.waited <= AUTO_INTERVAL
       /\ gameState.autoMineRate = 0 => ~DueAutoTick]_vars

\* C28: no update is lost when an auto tick falls between the render an
\* intent reads and the write of that intent: a click that follows an auto
\* tick takes nothing back from what the tick added to the resources, to
\* totalMined, to depth and to the experience.
C28_NoLostUpdate ==
    [][(SeamMine \/ BuyEquipment \/ BuyUpgrade \/ SpendSkillPoint)
         => /\ \A resourceId \in ResourceIds :
                 Le(gameState[resourceId], gameState'[resourceId])
            /\ Le(gameState.totalMined, gameState'.totalMined)
            /\ Le(gameState.depth, gameState'.depth)
            /\ \/ gameState'.level > gameState.level
               \/ /\ gameState'.level = gameState.level
                  /\ Le(gameState.xp, gameState'.xp)]_vars

\* C29: no step lowers depth, and only a click on Mine or an auto tick
\* changes it.
C29_DepthMonotonic ==
    [][/\ Le(gameState.depth, gameState'.depth)
       /\ gameState'.depth # gameState.depth
            => (SeamMine \/ SeamAutoTick)]_vars

\* C30: a call of sellResource with an id that is no resource (money and
\* depth included), or of buyEquipment, buyMoneyUpgrade or spendSkillPoint
\* with an id that is not in its catalog, changes nothing; so the fields of
\* gameState keep their keys.
C30_UnknownIdIsNoOp ==
    [][/\ \A id \in AnyIds :
            /\ (id \notin ResourceIds /\ SellAnyIdOf(id)) => UNCHANGED vars
            /\ (id \notin EquipmentIds /\ BuyEquipmentOf(id)) => UNCHANGED vars
            /\ (id \notin UpgradeIds /\ BuyUpgradeOf(id)) => UNCHANGED vars
            /\ (id \notin SkillIds /\ SpendSkillPointOf(id)) => UNCHANGED vars
       /\ DOMAIN gameState' = DOMAIN gameState
       /\ DOMAIN gameState'.equipment = EquipmentIds
       /\ DOMAIN gameState'.moneyUpgrades = UpgradeIds
       /\ DOMAIN gameState'.skills = SkillIds]_vars

\* C30 witness: 100 coal were sold in two lots, a basic pickaxe bought and
\* a skill point spent on click_power_boost, among the calls with the other
\* ids; the money is what those three left.
C30_Witness ==
    /\ gameState.coal = Num(0)
    /\ gameState.money = Num(50)
    /\ gameState.equipment["basic_pickaxe"] = 1
    /\ gameState.skills["click_power_boost"] = 1
    /\ gameState.skillPoints = CoalOnly.skillPoints - 1
    /\ gameState.depth = CoalOnly.depth
    /\ ~sellAccepted(gameState, "money", Num(SellLot))
    /\ ~buyEquipmentAccepted(gameState, "uranium")
    /\ ~buyMoneyUpgradeAccepted(gameState, "basic_pickaxe")
    /\ ~spendSkillPointAccepted(gameState, "coal")

\* C31: while the minigame is active player.x lies in 0 .. CANVAS_WIDTH -
\* PLAYER_WIDTH, and only a key changes it, by KEY_STEP at most.
C31_PlayerMovedByKeysOnly ==
    [][(rendered.minigameOpen /\ rendered'.minigameOpen)
         => /\ Le(Num(0), player'.x)
            /\ Le(player'.x, Num(CANVAS_WIDTH - PLAYER_WIDTH))
            /\ player'.x # player.x
                 => /\ KeyDown
                    /\ Le(Sub(player'.x, player.x), Num(KEY_STEP))
                    /\ Le(Sub(player.x, player'.x), Num(KEY_STEP))]_vars

\* C32: the commit that shows the dialog open, also after an earlier
\* minigame was won or lost and reported, starts the minigame afresh: no
\* outcome, MINIGAME_TIME left, no obstacle, the player at the centre, the
\* processes running, and the dialog stays open.
C32_FreshActivation ==
    [][(~rendered.minigameOpen /\ rendered'.minigameOpen)
         => /\ result' = "null"
            /\ timeLeft' = MINIGAME_TIME
            /\ gasLines' = << >>
            /\ player' = [x |-> Num(CANVAS_WIDTH \div 2)]
            /\ gameLoop' /\ spawnInterval' /\ timerInterval' /\ keydown'
            /\ minigameOpen']_vars

\* C32 witness: the minigame of depth 69190 was won (50 xp on top of the
\* 202 of the two clicks, the money kept) and the minigame of depth 69200
\* has just started.
C32_Witness ==
    /\ rendered.minigameOpen
    /\ lastDepthForMinigame = 69200
    /\ gameState.xp = Add(Veteran.xp, Num(252))
    /\ gameState.money = Veteran.money
    /\ closed = << >> /\ ticks = 0
    /\ result = "null"
    /\ timeLeft = MINIGAME_TIME
    /\ gasLines = << >>
    /\ player = [x |-> Num(CANVAS_WIDTH \div 2)]

\* C33: an active minigame resolves, whatever the host does meanwhile: once
\* its countdown has run MINIGAME_TIME times since the minigame was entered
\* an outcome is set or was reported.
C33_ResolvesWithinCountdown ==
    (rendered.minigameOpen /\ ticks >= MINIGAME_TIME)
      => (result # "null" \/ closed # << >>)

\* C34: while the minigame stays active the remaining time never increases,
\* and a step that is not one of the minigame's own callbacks (countdown,
\* spawner, frame, key) leaves the remaining time, the obstacles and the
\* player as they were.
C34_EconomyLeavesMinigameAlone ==
    [][(rendered.minigameOpen /\ rendered'.minigameOpen)
         => /\ timeLeft' <= timeLeft
            /\ ~(TimerTick \/ Spawn \/ Frame \/ KeyDown)
                 => /\ timeLeft' = timeLeft
                    /\ gasLines' = gasLines
                    /\ player' = player]_vars
(***************************************************************************)
(* SpecPoints: an auto miner one xp short of level 4, with 450 money and   *)
(* 2 skill points: level-ups arrive in interval callbacks, between the     *)
(* renders the shop and the skill tree read.                               *)
(***************************************************************************)
\* handleMinigameClose('win') of a render whose multiplier is the state's
Won(g) ==
    gainXp(g.upgrades.xpGainMultiplier, g, Num(WIN_XP))

\* 100 coal and 150 iron mined, the iron sold and an auto miner bought, 50
\* gold mined (depth 30), the minigame of depth 30 won, 49 gold mined
NearLevel4 ==
    Mines(Won(Mines(buyEquipment(
        SellAll(Lost(Mines(InitialGameState, 250)), "iron"),
        "auto_miner"), 50)), 49)

InitPoints ==
    InitAt(NearLevel4)

PointsMine ==
    MineUpTo(MaxPointsMined)

PointsAutoTick ==
    AutoTickUpTo(MaxPointsMined)

NextPoints ==
    \/ PointsMine
    \/ PointsAutoTick
    \/ BuyEquipment
    \/ SpendSkillPoint
    \/ Render

SpecPoints == InitPoints /\ [][NextPoints]_vars

\* the skill points paid for the first `level` levels of a skill
RECURSIVE CostsPaid(_, _)
CostsPaid(skill, level) ==
    IF level = 0 THEN 0
    ELSE getCost(skill, level - 1) + CostsPaid(skill, level - 1)

RECURSIVE SumCostsPaid(_, _)
SumCostsPaid(g, n) ==
    IF n = 0 THEN 0
    ELSE CostsPaid(SKILL_TREE[n], g.skills[SKILL_TREE[n].id]) + SumCostsPaid(g, n - 1)

SkillPointsSpent(g) ==
    SumCostsPaid(g, Len(SKILL_TREE))

\* C35: skill points are never negative, and level - 1 is the unspent skill
\* points plus the costs paid for all skill levels bought so far.
C35_SkillPointsConserved ==
    /\ gameState.skillPoints >= 0
    /\ gameState.level - 1
         = gameState.skillPoints + SkillPointsSpent(gameState)

\* C35 witness: level 4 was reached in an interval callback that the host
\* has not rendered yet, after a skill point of the two of level 3 was
\* spent on click_power_boost: 2 points are held and 1 was paid.
C35_Witness ==
    /\ gameState.level = 4
    /\ rendered.gameState.level = 3
    /\ gameState.skills["click_power_boost"] = 1
    /\ gameState.skillPoints = 2
    /\ SkillPointsSpent(gameState) = 1

\* C36: no balance goes negative: money and the four resource quantities
\* are at least 0 in every reachable state.
C36_NoNegativeBalance ==
    /\ Le(Num(0), gameState.money)
    /\ \A resourceId \in ResourceIds : Le(Num(0), gameState[resourceId])

\* the sum of the four resource quantities held
Held(g) ==
    Add(Add(g.coal, g.iron), Add(g.gold, g.diamond))

\* C37: totalMined never decreases, and it accounts for what is held: the
\* four quantities held sum to totalMined less the amounts sold, so to
\* totalMined at most.
C37_MinedTotalsAccounted ==
    [][/\ Le(gameState.totalMined, gameState'.totalMined)
       /\ Le(Held(gameState'), gameState'.totalMined)]_vars

\* the obstacle is entirely above the player
AbovePlayer(line) ==
    Le(Add(line.y, line.height), Num(PLAYER_Y))

\* the horizontal spans of the player and of the obstacle overlap
SpansOverlap(p, line) ==
    /\ Lt(p.x, Add(line.x, line.width))
    /\ Lt(line.x, Add(p.x, Num(PLAYER_WIDTH)))

\* C38: no obstacle passes through the player undetected: after a frame, an
\* obstacle that was entirely above the player and over the player's span is
\* still on the canvas entirely above the player, or the frame has set Lost.
C38_NoTunnelling ==
    [][Frame =>
         \A i \in 1..Len(gasLines) :
            (AbovePlayer(gasLines[i]) /\ SpansOverlap(player, gasLines[i]))
              => \/ result' = "lose"
                 \/ \E j \in 1..Len(gasLines') :
                       /\ gasLines'[j] = [gasLines[i] EXCEPT !.y = gasLines'[j].y]
                       /\ AbovePlayer(gasLines'[j])]_vars

(***************************************************************************)
(* The resource-priced variant of the App: no currency, no experience, no  *)
(* minigame; equipment is paid in resources.                               *)
(***************************************************************************)
INITIAL_EQUIPMENT_ResourcePriced ==
    << [id |-> "basic_pickaxe", type |-> "pickaxe",    power |-> 2,  cost |-> 50],
       [id |-> "steel_pickaxe", type |-> "pickaxe",    power |-> 5,  cost |-> 200],
       [id |-> "auto_miner",    type |-> "automation", power |-> 1,  cost |-> 300],
       [id |-> "drill",         type |-> "drill",      power |-> 10, cost |-> 1000],
       [id |-> "mega_drill",    type |-> "drill",      power |-> 50, cost |-> 5000] >>

EquipmentIds_ResourcePriced ==
    {INITIAL_EQUIPMENT_ResourcePriced[i].id :
        i \in 1..Len(INITIAL_EQUIPMENT_ResourcePriced)}

InitialGameState_ResourcePriced ==
    [ coal |-> Num(0), iron |-> Num(0), gold |-> Num(0), diamond |-> Num(0),
      depth |-> Num(0), totalMined |-> Num(0),
      clickPower |-> 1, autoMineRate |-> 0,
      equipment |-> [id \in EquipmentIds_ResourcePriced |-> 0],
      upgrades |-> [clickMultiplier |-> Num(1), autoMultiplier |-> Num(1),
                    efficiencyBonus |-> Num(1)] ]

getTotalValue(g) ==
    Add(Add(g.coal, Mul(g.iron, Num(5))),
        Add(Mul(g.gold, Num(25)), Mul(g.diamond, Num(100))))

Min(a, b) ==
    IF Lt(b, a) THEN b ELSE a

equipmentCost_ResourcePriced(seen, equipmentId) ==
    Mul(Num(Find(INITIAL_EQUIPMENT_ResourcePriced, equipmentId).cost),
        Pow(Frac(3, 2), seen.equipment[equipmentId]))

buyEquipmentAccepted_ResourcePriced(seen, equipmentId) ==
    LET totalResources ==
            Add(Add(seen.coal, Mul(seen.iron, Num(5))),
                Add(Mul(seen.gold, Num(25)), Mul(seen.diamond, Num(100))))
    IN  /\ equipmentId \in EquipmentIds_ResourcePriced
        /\ ~Lt(totalResources, equipmentCost_ResourcePriced(seen, equipmentId))

RECURSIVE SumPower_ResourcePriced(_, _, _)
SumPower_ResourcePriced(owned, types, i) ==
    IF i = 0 THEN 0
    ELSE SumPower_ResourcePriced(owned, types, i - 1)
         + (IF INITIAL_EQUIPMENT_ResourcePriced[i].type \in types
            THEN INITIAL_EQUIPMENT_ResourcePriced[i].power
                   * owned[INITIAL_EQUIPMENT_ResourcePriced[i].id]
            ELSE 0)

\* the deduction in whole units of diamond, gold and iron
buyEquipment_ResourcePriced_WholeUnits(seen, equipmentId) ==
    LET cost == equipmentCost_ResourcePriced(seen, equipmentId)
        diamondCost == Min(Num(Floor(Mul(cost, Frac(1, 100)))), seen.diamond)
        afterDiamond == Sub(cost, Mul(diamondCost, Num(100)))
        goldCost == Min(Num(Floor(Mul(afterDiamond, Frac(1, 25)))), seen.gold)
        afterGold == Sub(afterDiamond, Mul(goldCost, Num(25)))
        ironCost == Min(Num(Floor(Mul(afterGold, Frac(1, 5)))), seen.iron)
        afterIron == Sub(afterGold, Mul(ironCost, Num(5)))
    IN  [seen EXCEPT !.diamond = Sub(@, diamondCost),
                     !.gold = Sub(@, goldCost),
                     !.iron = Sub(@, ironCost),
                     !.coal = Sub(@, afterIron),
                     !.equipment[equipmentId] = @ + 1]

\* the state buyEquipment sets once its guard has passed
buyEquipment_ResourcePriced(seen, equipmentId) ==
    LET cost == equipmentCost_ResourcePriced(seen, equipmentId)
        diamondCost == Min(Mul(cost, Frac(1, 100)), seen.diamond)
        afterDiamond == Sub(cost, Mul(diamondCost, Num(100)))
        goldCost == Min(Mul(afterDiamond, Frac(1, 25)), seen.gold)
        afterGold == Sub(afterDiamond, Mul(goldCost, Num(25)))
        ironCost == Min(Mul(afterGold, Frac(1, 5)), seen.iron)
        afterIron == Sub(afterGold, Mul(ironCost, Num(5)))
        updatedEquipment == [seen.equipment EXCEPT ![equipmentId] = @ + 1]
        newClickPower ==
            1 + SumPower_ResourcePriced(updatedEquipment, {"pickaxe", "drill"},
                                        Len(INITIAL_EQUIPMENT_ResourcePriced))
        newAutoMineRate ==
            SumPower_ResourcePriced(updatedEquipment, {"automation"},
                                    Len(INITIAL_EQUIPMENT_ResourcePriced))
    IN  [seen EXCEPT !.diamond = Sub(@, diamondCost),
                     !.gold = Sub(@, goldCost),
                     !.iron = Sub(@, ironCost),
                     !.coal = Sub(@, afterIron),
                     !.equipment = updatedEquipment,
                     !.clickPower = newClickPower,
                     !.autoMineRate = newAutoMineRate]

\* a call of buyEquipment: the state after it, set or left
buyEquipmentCall_ResourcePriced(seen, equipmentId) ==
    IF buyEquipmentAccepted_ResourcePriced(seen, equipmentId)
    THEN buyEquipment_ResourcePriced(seen, equipmentId)
    ELSE seen

(***************************************************************************)
(* SpecResourcePriced: the shop of the resource-priced variant, entered    *)
(* with the resources mined so far.                                        *)
(***************************************************************************)
\* the quantities held when the shop is entered
CoalHeld == {Num(0), Num(40), Num(100)}
IronHeld == {Num(0), Num(7), Num(20)}
GoldHeld == {Num(0), Num(3), Num(10)}
DiamondHeld == {Num(0), Num(1), Num(12)}

InitResourcePriced ==
    /\ \E coal \in CoalHeld, iron \in IronHeld, gold \in GoldHeld,
          diamond \in DiamondHeld :
         gameState = [InitialGameState_ResourcePriced EXCEPT
                        !.coal = coal, !.iron = iron, !.gold = gold,
                        !.diamond = diamond,
                        !.totalMined = Add(Add(coal, iron), Add(gold, diamond))]
    /\ minigameOpen = FALSE
    /\ lastDepthForMinigame = 0
    /\ interval = NoInterval
    /\ timeLeft = MINIGAME_TIME
    /\ result = "null"
    /\ player = [x |-> Num(CANVAS_WIDTH \div 2)]
    /\ gasLines = << >>
    /\ gameSpeed = Num(1)
    /\ gameLoop = FALSE
    /\ spawnInterval = FALSE
    /\ timerInterval = FALSE
    /\ keydown = FALSE
    /\ rendered = [gameState |-> gameState]
    /\ appDirty = FALSE
    /\ closed = << >>
    /\ ticks = 0

\* a click on an equipment card, and the render that follows it
BuyEquipment_ResourcePriced ==
    \E equipmentId \in EquipmentIds_ResourcePriced :
        /\ gameState.equipment[equipmentId] < MaxOwned
        /\ gameState' = buyEquipmentCall_ResourcePriced(rendered.gameState,
                                                       equipmentId)
        /\ rendered' = [gameState |-> gameState']
        /\ UNCHANGED <<minigameOpen, lastDepthForMinigame, interval, timeLeft,
                       result, player, gasLines, gameSpeed, gameLoop,
                       spawnInterval, timerInterval, keydown, appDirty, closed,
                       ticks>>

NextResourcePriced ==
    BuyEquipment_ResourcePriced

SpecResourcePriced == InitResourcePriced /\ [][NextResourcePriced]_vars

\* C39: in the resource-priced variant a call of buyEquipment is accepted
\* exactly when coal + 5 iron + 25 gold + 100 diamond is at least the cost,
\* and an accepted call lowers that total by exactly the cost and leaves
\* every resource quantity at 0 or more.
C39_ResourcePricedPurchase ==
    \A equipmentId \in EquipmentIds_ResourcePriced :
        LET cost == equipmentCost_ResourcePriced(gameState, equipmentId)
            after == buyEquipmentCall_ResourcePriced(gameState, equipmentId)
            accepted == after.equipment[equipmentId]
                          = gameState.equipment[equipmentId] + 1
        IN  /\ accepted <=> Le(cost, getTotalValue(gameState))
            /\ ~accepted => after = gameState
            /\ accepted =>
                 /\ getTotalValue(after) = Sub(getTotalValue(gameState), cost)
                 /\ \A resourceId \in ResourceIds :
                       Le(Num(0), after[resourceId])

\* C39 witness: with 1 diamond, 3 gold, 7 iron and 40 coal (total value 250)
\* a steel pickaxe (200) and then a basic pickaxe (50) were bought: the
\* second purchase cost all that was left, and nothing is held.
C39_Witness ==
    /\ gameState.equipment["steel_pickaxe"] = 1
    /\ gameState.equipment["basic_pickaxe"] = 1
    /\ gameState.totalMined = Num(51)
    /\ getTotalValue(gameState) = Num(0)
    /\ \A resourceId \in ResourceIds : gameState[resourceId] = Num(0)

====
